---- MODULE Spec2Model ----
(***************************************************************************)
(* Model of observer.py: the Observer pattern played as an auction.        *)
(* ConcreteSubject (auctioneer) keeps the highest bid in _state and the    *)
(* bidders in _observers; ConcreteObserver (bidder) raises the bid in      *)
(* update when its money allows.                                           *)
(*                                                                         *)
(* _observers is a class attribute that no method ever rebinds, so every   *)
(* subject reads and mutates the same list: it is one variable here.       *)
(* _state is a class attribute too, but update assigns subject._state,     *)
(* which creates an instance attribute: it is one value per subject.       *)
(***************************************************************************)
EXTENDS Integers, Sequences, FiniteSets, TLC

\* ---- bounds of the model ------------------------------------------------
\* observers the client constructs (the driver: 5)
NumObservers == 3
\* subjects the client constructs (the driver: 1)
NumSubjects == 2
\* _money is drawn from 1..MaxMoney (the source: randrange(1, 16))
MaxMoney == 3

\* ---- program constants --------------------------------------------------
\* variant: the auction is played over one round fewer
roundsTwo == 1 + 1

rounds == 3

\* the number of observers the driver constructs and attaches
count == 5

\* the observers of the driver
Bidder == 1..count

Observer == 1..NumObservers
Subject == 1..NumSubjects
\* the subject the driver creates
OneSubject == CHOOSE s \in Subject : \A t \in Subject : s <= t

\* ConcreteObserver.__init__: the client names its observers 0, 1, 2, ...
name == [o \in Observer \cup Bidder |-> o - 1]

VARIABLES
    money,      \* ConcreteObserver._money, drawn at construction
    state,      \* ConcreteSubject._state, per subject instance
    observers,  \* ConcreteSubject._observers, the class-level list
    pc,         \* position of the single thread of control
    x,          \* loop variable of some_business_logic (0: not in it)
    i,          \* number of items the running list iterator has yielded
    updated,    \* history: update calls per observer in the current notify
    atCall,     \* history: the list as it was when notify was called
    self,       \* the subject the last call was made on (self of the running call)
    outcome,    \* "ok", or the exception the last call propagated
    result,     \* closing announcement, if the last call made one
    winner,     \* the names announced as winner by the closing step
    net,        \* history: attach calls minus successful detach calls so far
    startState, \* history: _state of self when some_business_logic was entered
    startObs,   \* history: the observers attached when some_business_logic was entered
    hand        \* the last update printed the "raises its hand" notice

vars == <<money, state, observers, pc, x, i, updated, atCall, self, outcome,
          result, winner, net, startState, startObs, hand>>

\* ---- list helpers (Python list semantics) ---------------------------------
Range(lst) == {lst[k] : k \in 1..Len(lst)}

InList(lst, o) == o \in Range(lst)

Count(lst, o) == Cardinality({k \in 1..Len(lst) : lst[k] = o})

\* list.index: position of the first occurrence
IndexOf(lst, o) == CHOOSE k \in 1..Len(lst) : lst[k] = o /\ \A j \in 1..(k-1) : lst[j] # o

\* list.remove on an element that is present: drops the first occurrence
Remove(lst, o) == SubSeq(lst, 1, IndexOf(lst, o) - 1) \o SubSeq(lst, IndexOf(lst, o) + 1, Len(lst))

\* random.shuffle: any rearrangement of the same items
Bijections(n) == {f \in [1..n -> 1..n] : \A a, b \in 1..n : f[a] = f[b] => a = b}

shuffle(lst) == {[k \in 1..Len(lst) |-> lst[f[k]]] : f \in Bijections(Len(lst))}

\* the class attribute every instance resolves self._observers to
ObserversOf(s) == observers

Zero == [o \in DOMAIN money |-> 0]

Init ==
    /\ money \in [Observer -> 1..MaxMoney]
    /\ state = [s \in Subject |-> 0]
    /\ observers = <<>>
    /\ pc = "idle"
    /\ x = 0
    /\ i = 0
    /\ updated = Zero
    /\ atCall = <<>>
    /\ self = OneSubject
    /\ outcome = "ok"
    /\ result = "none"
    /\ winner = {}
    /\ net = 0
    /\ startState = 0
    /\ startObs = {}
    /\ hand = FALSE

\* the client is between calls; the return of some_business_logic ends the program
AtRest == pc = "idle"

\* ---- ConcreteSubject.attach --------------------------------------------
\* variant: attach rebinds the list to the newcomer alone
attachListReplace(s, o) == <<o>>

\* list.append
attachList(s, o) == Append(ObserversOf(s), o)

\* the client attaches an observer that is not registered at the moment
\* (the driver constructs a new observer for every attach)
attach(s, o) ==
    /\ AtRest
    /\ ~InList(ObserversOf(s), o)
    /\ observers' = attachList(s, o)
    /\ net' = net + 1
    /\ self' = s
    /\ outcome' = "ok"
    /\ pc' = "idle"
    /\ x' = 0
    /\ result' = "none"
    /\ winner' = {}
    /\ UNCHANGED <<startState, startObs, hand, money, state, i, updated, atCall>>

\* ---- ConcreteSubject.detach --------------------------------------------
\* list.remove raises ValueError when the item is absent
detachFails(s, o) == ~InList(ObserversOf(s), o)

\* variant: the position is looked up with a search that answers -1 for an
\* absent observer, and the item at that position (the last one) is deleted
detachListByPosition(s, o) ==
    IF detachFails(s, o)
    THEN SubSeq(ObserversOf(s), 1, Len(ObserversOf(s)) - 1)
    ELSE Remove(ObserversOf(s), o)

\* variant: the head of the list is dropped, whoever was asked to leave
detachListHead(s, o) == IF detachFails(s, o) THEN ObserversOf(s) ELSE Tail(ObserversOf(s))

detachList(s, o) == IF detachFails(s, o) THEN ObserversOf(s) ELSE Remove(ObserversOf(s), o)

detachOutcome(s, o) == IF detachFails(s, o) THEN "ValueError" ELSE "ok"

detachNet(s, o) == IF detachFails(s, o) THEN net ELSE net - 1

\* detach called by the client, with any observer
detach(s, o) ==
    /\ AtRest
    /\ observers' = detachList(s, o)
    /\ outcome' = detachOutcome(s, o)
    /\ net' = detachNet(s, o)
    /\ self' = s
    /\ pc' = "idle"
    /\ x' = 0
    /\ result' = "none"
    /\ winner' = {}
    /\ UNCHANGED <<startState, startObs, hand, money, state, i, updated, atCall>>

\* ---- ConcreteSubject.notify --------------------------------------------
\* notify called by the client: the for loop starts on the live list
notify(s) ==
    /\ AtRest
    /\ pc' = "notify"
    /\ x' = 0
    /\ i' = 0
    /\ updated' = Zero
    /\ atCall' = ObserversOf(s)
    /\ self' = s
    /\ outcome' = "ok"
    /\ result' = "none"
    /\ winner' = {}
    /\ UNCHANGED <<startState, startObs, hand, money, state, observers, net>>

\* ---- ConcreteObserver.update -------------------------------------------
\* variant: the bid is overwritten without comparing
updateUnconditional(o, s) == [state EXCEPT ![s] = money[o]]

\* variant: the notice is printed outside the comparison
raisesHandAlways(o, s) == TRUE

\* observer o prints the notice of raising when it is updated by subject s
raisesHand(o, s) == state[s] < money[o]

\* variant: the raising observer bids one more than it owns
updateOutbid(o, s) == IF state[s] < money[o] THEN [state EXCEPT ![s] = money[o] + 1] ELSE state

\* variant: only the opening bid is accepted
updateFirstBid(o, s) == IF state[s] = 0 THEN [state EXCEPT ![s] = money[o]] ELSE state

\* variant: the comparison of update is written the wrong way round
updateReversed(o, s) == IF state[s] > money[o] THEN [state EXCEPT ![s] = money[o]] ELSE state

\* the new _state of subject s after observer o reacted
update(o, s) == IF state[s] < money[o] THEN [state EXCEPT ![s] = money[o]] ELSE state

\* variant: the loop advances two items per iteration
notifyUpdateSkip ==
    /\ pc = "notify"
    /\ i < Len(ObserversOf(self))
    /\ state' = update(ObserversOf(self)[i + 1], self)
    /\ updated' = [updated EXCEPT ![ObserversOf(self)[i + 1]] = @ + 1]
    /\ hand' = raisesHand(ObserversOf(self)[i + 1], self)
    /\ i' = i + 2
    /\ UNCHANGED <<startState, startObs, money, observers, pc, x, atCall, self,
                   outcome, result, winner, net>>

\* variant: an observer that cannot raise leaves the auction in its update
notifyUpdateLeave ==
    /\ pc = "notify"
    /\ i < Len(ObserversOf(self))
    /\ state' = update(ObserversOf(self)[i + 1], self)
    /\ updated' = [updated EXCEPT ![ObserversOf(self)[i + 1]] = @ + 1]
    /\ hand' = raisesHand(ObserversOf(self)[i + 1], self)
    /\ i' = i + 1
    /\ observers' = IF money[ObserversOf(self)[i + 1]] < state[self]
                     THEN Remove(ObserversOf(self), ObserversOf(self)[i + 1])
                     ELSE observers
    /\ UNCHANGED <<startState, startObs, money, pc, x, atCall, self,
                   outcome, result, winner, net>>

\* one iteration of notify's loop: the iterator yields item number i
notifyUpdate ==
    /\ pc = "notify"
    /\ i < Len(ObserversOf(self))
    /\ state' = update(ObserversOf(self)[i + 1], self)
    /\ updated' = [updated EXCEPT ![ObserversOf(self)[i + 1]] = @ + 1]
    /\ hand' = raisesHand(ObserversOf(self)[i + 1], self)
    /\ i' = i + 1
    /\ UNCHANGED <<startState, startObs, money, observers, pc, x, atCall, self,
                   outcome, result, winner, net>>

\* the iterator is exhausted: notify returns to its caller
notifyReturn ==
    /\ pc = "notify"
    /\ i >= Len(ObserversOf(self))
    /\ pc' = IF x = 0 THEN "idle" ELSE "elim"
    /\ i' = 0
    /\ updated' = IF x = 0 THEN Zero ELSE updated
    /\ atCall' = IF x = 0 THEN <<>> ELSE atCall
    /\ hand' = FALSE
    /\ UNCHANGED <<startState, startObs, money, state, observers, x, self, outcome,
                   result, winner, net>>

\* ---- ConcreteSubject.some_business_logic -------------------------------
\* entry: rounds = 3, first value of the loop variable
some_business_logic(s) ==
    /\ AtRest
    /\ pc' = "round"
    /\ x' = 1
    /\ i' = 0
    /\ self' = s
    /\ outcome' = "ok"
    /\ result' = "none"
    /\ winner' = {}
    /\ startState' = state[s]
    /\ startObs' = Range(ObserversOf(s))
    /\ UNCHANGED <<hand, money, state, observers, updated, atCall, net>>

\* top of a round: shuffle the list in place, then call notify
roundShuffle ==
    /\ pc = "round"
    /\ observers' \in shuffle(ObserversOf(self))
    /\ atCall' = observers'
    /\ updated' = Zero
    /\ i' = 0
    /\ pc' = "notify"
    /\ UNCHANGED <<startState, startObs, hand, money, state, x, self, outcome, result,
                   winner, net>>

\* variant: the loop walks the bidders by name instead of the live list
elimTargetByName == i + 1

\* the observer the elimination loop looks at: item number i of the live list
elimTarget == ObserversOf(self)[i + 1]

\* variant: a bidder whose money equals the bid is eliminated too
eliminatedOrEqual(o, s) == money[o] <= state[s]

\* variant: the comparison is written the wrong way round
eliminatedReversed(o, s) == money[o] >= state[s]

\* the elimination test of one observer
eliminated(o, s) == money[o] < state[s]

\* one iteration of the elimination loop over the live list
elimStep ==
    /\ pc = "elim"
    /\ i < Len(ObserversOf(self))
    /\ IF eliminated(elimTarget, self)
       THEN /\ observers' = detachList(self, elimTarget)
            /\ outcome' = detachOutcome(self, elimTarget)
            /\ net' = detachNet(self, elimTarget)
            /\ pc' = IF detachFails(self, elimTarget) THEN "raised" ELSE "elim"
       ELSE UNCHANGED <<observers, outcome, net, pc>>
    /\ i' = i + 1
    /\ UNCHANGED <<startState, startObs, hand, money, state, x, updated, atCall, self,
                   result, winner>>

\* variant: the pass worked on the list in place but the next round starts
\* from the list as it was notified
elimDoneRestore ==
    /\ pc = "elim"
    /\ i >= Len(ObserversOf(self))
    /\ pc' = IF x < rounds THEN "round" ELSE "close"
    /\ x' = IF x < rounds THEN x + 1 ELSE x
    /\ i' = 0
    /\ updated' = Zero
    /\ atCall' = <<>>
    /\ observers' = atCall
    /\ UNCHANGED <<startState, startObs, hand, money, state, self, outcome, result, winner, net>>

\* the elimination loop is exhausted: next round, or leave the rounds loop
elimDone ==
    /\ pc = "elim"
    /\ i >= Len(ObserversOf(self))
    /\ pc' = IF x < rounds THEN "round" ELSE "close"
    /\ x' = IF x < rounds THEN x + 1 ELSE x
    /\ i' = 0
    /\ updated' = Zero
    /\ atCall' = <<>>
    /\ UNCHANGED <<startState, startObs, hand, money, state, observers, self, outcome, result, winner, net>>

\* variant: a single remaining bidder is announced as no winner
closeResultAtLeastOne(lst) == IF Len(lst) >= 1 THEN "no_winner" ELSE "none"

\* variant: everything but a single remaining bidder is announced as no winner
closeResultNotOne(lst) == IF Len(lst) # 1 THEN "no_winner" ELSE "winner"

\* the closing announcement; _observers[0] raises IndexError on an empty list
closeResult(lst) == IF Len(lst) > 1 THEN "no_winner" ELSE IF Len(lst) = 0 THEN "none" ELSE "winner"

closeWinner(lst) == IF Len(lst) = 1 THEN {name[lst[1]]} ELSE {}

closeOutcome(lst) == IF Len(lst) = 0 THEN "IndexError" ELSE "ok"

close ==
    /\ pc = "close"
    /\ result' = closeResult(ObserversOf(self))
    /\ winner' = closeWinner(ObserversOf(self))
    /\ outcome' = closeOutcome(ObserversOf(self))
    /\ pc' = IF closeOutcome(ObserversOf(self)) = "ok" THEN "done" ELSE "raised"
    /\ UNCHANGED <<startState, startObs, hand, money, state, observers, x, i, updated, atCall,
                   self, net>>

\* the client works with one subject, as the driver does
Next ==
    \/ \E o \in Observer : attach(OneSubject, o)
    \/ \E o \in Observer : detach(OneSubject, o)
    \/ notify(OneSubject)
    \/ notifyUpdate
    \/ notifyReturn
    \/ some_business_logic(OneSubject)
    \/ roundShuffle
    \/ elimStep
    \/ elimDone
    \/ close

Spec == Init /\ [][Next]_vars

\* ---- the driver ------------------------------------------------------------
\* the driver's observers, before any of them is attached
InitDriver ==
    /\ money \in [Bidder -> 1..MaxMoney]
    /\ state = [s \in Subject |-> 0]
    /\ observers = <<>>
    /\ pc = "idle"
    /\ x = 0
    /\ i = 0
    /\ updated = Zero
    /\ atCall = <<>>
    /\ self = OneSubject
    /\ outcome = "ok"
    /\ result = "none"
    /\ winner = {}
    /\ net = 0
    /\ startState = 0
    /\ startObs = {}
    /\ hand = FALSE

\* the attach loop: the observers are attached in the order of their names
driverAttach ==
    /\ Len(ObserversOf(OneSubject)) < count
    /\ attach(OneSubject, Len(ObserversOf(OneSubject)) + 1)

\* after the loop the driver calls some_business_logic
driverRun ==
    /\ Len(ObserversOf(OneSubject)) = count
    /\ some_business_logic(OneSubject)

NextDriver ==
    \/ driverAttach
    \/ driverRun
    \/ roundShuffle
    \/ notifyUpdate
    \/ notifyReturn
    \/ elimStep
    \/ elimDone
    \/ close

SpecDriver == InitDriver /\ [][NextDriver]_vars

\* the client works with several subjects
NextShared ==
    \/ \E s \in Subject, o \in Observer : attach(s, o)
    \/ \E s \in Subject, o \in Observer : detach(s, o)
    \/ \E s \in Subject : notify(s)
    \/ notifyUpdate
    \/ notifyReturn
    \/ \E s \in Subject : some_business_logic(s)
    \/ roundShuffle
    \/ elimStep
    \/ elimDone
    \/ close

SpecShared == Init /\ [][NextShared]_vars

TypeOK ==
    /\ money \in [Observer -> 1..MaxMoney]
    /\ state \in [Subject -> 0..MaxMoney]
    /\ Range(observers) \subseteq Observer
    /\ pc \in {"idle", "notify", "round", "elim", "close", "done", "raised"}
    /\ x \in 0..rounds
    /\ i \in 0..NumObservers
    /\ outcome \in {"ok", "ValueError", "IndexError"}
    /\ result \in {"none", "no_winner", "winner"}

\* an elimination pass has run to its end
PassOver == pc = "elim" /\ i >= Len(ObserversOf(self))

\* the running notify has run to its end
NotifyOver == pc = "notify" /\ i >= Len(ObserversOf(self))

\* C1: immediately after each round's elimination pass, every observer still
\* in the collection has budget >= the subject's state.
C1_SurvivorsCanAfford ==
    PassOver => \A k \in 1..Len(ObserversOf(self)) : money[ObserversOf(self)[k]] >= state[self]

\* C2: an observer leaves the collection during an elimination pass only if
\* its budget is strictly less than the subject's state at that moment; one
\* with budget >= state is never removed by a round.
C2_DetachedOnlyBelowState ==
    [][pc # "idle" =>
         \A o \in Observer :
            (InList(observers, o) /\ ~InList(observers', o)) => money[o] < state[self]]_vars

C2_Witness ==
    /\ pc = "elim"
    /\ Len(observers) < Len(atCall)
    /\ \E k \in 1..Len(observers) : money[observers[k]] >= state[self]

\* C3: a call made on one subject leaves the observer collection of every
\* other subject unchanged.
C3_OtherSubjectUntouched ==
    [][\A t \in Subject : t # self' => ObserversOf(t)' = ObserversOf(t)]_vars

\* C4: notify calls update exactly once on every observer that is in the
\* collection when notify is called, never more, whatever the order; on an
\* empty collection it updates nobody; and it returns normally.
C4_NotifyUpdatesEachOnce ==
    /\ pc = "notify" => \A o \in Observer : updated[o] <= Count(atCall, o)
    /\ (NotifyOver \/ pc = "elim") =>
           /\ \A o \in Observer : updated[o] = Count(atCall, o)
           /\ outcome = "ok"

C4_Witness ==
    /\ NotifyOver
    /\ x >= 1
    /\ Len(atCall) >= 2
    /\ atCall[1] > atCall[2]

\* C5: no step ever sets a subject's state to a value lower than its current
\* value.
C5_StateNeverDecreases ==
    [][\A s \in Subject : state'[s] >= state[s]]_vars

C5_Witness ==
    /\ pc = "notify"
    /\ i >= 1
    /\ money[ObserversOf(self)[i]] < state[self]

\* C6: after the closing step, more than one remaining observer means the
\* auction closed with no winner, and exactly one remaining observer means
\* that observer, and no other, is declared the winner.
C6_ClosingAnnouncement ==
    pc = "done" =>
       /\ Len(ObserversOf(self)) > 1 => (result = "no_winner" /\ winner = {})
       /\ Len(ObserversOf(self)) = 1 => (result = "winner" /\ winner = {name[ObserversOf(self)[1]]})

C6_Witness ==
    /\ pc = "done"
    /\ result = "winner"
    /\ Len(ObserversOf(self)) = 1
    /\ state[self] = money[ObserversOf(self)[1]]

\* C7: with zero observers at the closing step, the run ends in an unhandled
\* error with neither a winner nor a no-winner announcement, and the three
\* rounds have run before that.
C7_EmptyCloseRaises ==
    /\ (pc = "close" /\ Len(ObserversOf(self)) = 0) => x = rounds
    /\ (pc \in {"done", "raised"} /\ Len(ObserversOf(self)) = 0 /\ outcome # "ValueError") =>
           /\ pc = "raised"
           /\ outcome = "IndexError"
           /\ result = "none"
           /\ winner = {}
           /\ x = rounds

C7_Witness ==
    /\ pc = "raised"
    /\ outcome = "IndexError"
    /\ state[self] > 0

\* C8: detach of an observer that is not in the collection propagates a
\* not-found error and leaves the collection and every state unchanged.
C8_DetachAbsentFails ==
    [][\A s \in Subject, o \in Observer :
         (detach(s, o) /\ ~InList(ObserversOf(s), o)) =>
            (outcome' = "ValueError" /\ observers' = observers /\ state' = state)]_vars

C8_Witness ==
    /\ pc = "idle"
    /\ outcome = "ValueError"
    /\ Len(observers) >= 1

\* C9: some_business_logic never meets the not-registered error: every
\* detach of an elimination pass targets an observer that is in the
\* collection at that moment.
C9_RunNeverNotRegistered ==
    /\ pc # "idle" => outcome # "ValueError"
    /\ (pc = "elim" /\ i < Len(ObserversOf(self))) => InList(ObserversOf(self), elimTarget)

C9_Witness ==
    /\ pc = "elim"
    /\ Len(observers) < Len(atCall)
    /\ i < Len(observers)
    /\ eliminated(elimTarget, self)

\* C10: for attach and detach calls made on one subject, the size of its
\* collection is the number of attaches minus the number of successful
\* detaches made so far.
C10_SizeIsAttachesMinusDetaches ==
    Len(ObserversOf(OneSubject)) = net

C10_Witness ==
    /\ pc = "elim"
    /\ Len(observers) >= 1
    /\ Len(observers) < Len(atCall)
    /\ net = Len(observers)

\* ---- runs of some_business_logic ------------------------------------------
\* some_business_logic has been entered
InRun == x >= 1

\* some_business_logic has been entered on a subject whose _state was 0
FromZero == InRun /\ startState = 0

\* the notify of round 1 has returned
Notified1 == InRun /\ (x >= 2 \/ pc \in {"elim", "close", "done", "raised"})

\* the elimination pass of round 1 has run to its end
AfterRound1 == InRun /\ (x >= 2 \/ PassOver \/ pc \in {"close", "done", "raised"})

\* some_business_logic has ended, by returning or by raising
Ended == InRun /\ pc \in {"done", "raised"}

\* the highest budget among the observers of S
MaxMoneyOf(S) == CHOOSE m \in {money[o] : o \in S} : \A o \in S : money[o] <= m

\* C11: two observers with budgets lo < hi and a state starting at 0: after
\* round 1 the state is hi, lo is detached and hi remains, in either order
\* of every round; at the end hi alone remains and is declared the winner.
C11_TwoBidders ==
    \A lo, hi \in DOMAIN money :
       (FromZero /\ startObs = {lo, hi} /\ money[lo] < money[hi]) =>
          /\ AfterRound1 => (state[self] = money[hi] /\ ObserversOf(self) = <<hi>>)
          /\ Ended => (pc = "done" /\ result = "winner" /\ winner = {name[hi]})

C11_Witness ==
    /\ FromZero
    /\ pc = "done"
    /\ \E lo, hi \in DOMAIN money :
          startObs = {lo, hi} /\ money[lo] < money[hi] /\ winner = {name[hi]}

\* the observers attached at the start all own the same budget
SameBudget == \A a, b \in startObs : money[a] = money[b]

\* C12: n >= 1 observers sharing one budget B and a state starting at 0:
\* once round 1 has notified, the state is B; nobody is ever detached; at
\* the end all remain, with no winner when n > 1 and the single observer as
\* the winner when n = 1.
C12_SameBudget ==
    (FromZero /\ startObs # {} /\ SameBudget) =>
       /\ Range(ObserversOf(self)) = startObs
       /\ Len(ObserversOf(self)) = Cardinality(startObs)
       /\ Notified1 => \A o \in startObs : state[self] = money[o]
       /\ Ended => pc = "done"
       /\ (Ended /\ Cardinality(startObs) > 1) => (result = "no_winner" /\ winner = {})
       /\ (Ended /\ Cardinality(startObs) = 1) =>
             (result = "winner" /\ winner = {name[o] : o \in startObs})

C12_Witness ==
    /\ FromZero
    /\ SameBudget
    /\ Cardinality(startObs) > 1
    /\ pc = "done"
    /\ result = "no_winner"

\* this step is one update call, made on the observer the iterator yields
UpdateStep == pc = "notify" /\ pc' = "notify" /\ i' = i + 1

\* C13: update on an observer whose budget is <= the state (a second call on
\* the same observer in particular) leaves the state unchanged and prints no
\* raise notice; after any update the state is >= that observer's budget.
C13_UpdateIdempotent ==
    [][UpdateStep =>
         /\ money[ObserversOf(self)[i + 1]] <= state[self] => (state' = state /\ hand' = FALSE)
         /\ state'[self] >= money[ObserversOf(self)[i + 1]]]_vars

C13_Witness ==
    /\ pc = "notify"
    /\ x >= 2
    /\ i >= 1
    /\ hand = FALSE
    /\ money[ObserversOf(self)[i]] = state[self]

\* observer o was attached when the run began and has been detached since
Gone(o) == InRun /\ o \in startObs /\ ~InList(ObserversOf(self), o)

\* C14: an observer detached in some round of a run is never in the
\* collection again and receives no update in any later round.
C14_EliminationIsFinal ==
    [][\A o \in DOMAIN money :
         Gone(o) => (~InList(ObserversOf(self)', o) /\ updated'[o] <= updated[o])]_vars

C14_Witness ==
    /\ InRun
    /\ x >= 2
    /\ pc = "notify"
    /\ i >= 1
    /\ \E o \in DOMAIN money : Gone(o)

\* C15: an update call, and notify as a whole, change no observer's budget
\* (names are fixed) and neither the membership nor the order of the
\* collection; only the state may change.
C15_UpdateFrame ==
    /\ [](NotifyOver => ObserversOf(self) = atCall)
    /\ [][pc = "notify" => (money' = money /\ observers' = observers /\ net' = net)]_vars

C15_Witness ==
    /\ NotifyOver
    /\ Len(ObserversOf(self)) >= 2
    /\ state[self] > startState
    /\ \E k \in 1..Len(ObserversOf(self)) : money[ObserversOf(self)[k]] < state[self]

\* observer o owns the highest budget among the observers attached at the start
HoldsMax(o) == o \in startObs /\ money[o] = MaxMoneyOf(startObs)

\* C16: from state 0 and at least one attached observer, an observer holding
\* the maximum budget is never detached, so the collection is non-empty at
\* the closing step and the empty-collection error does not happen.
C16_MaxHolderStays ==
    (FromZero /\ startObs # {}) =>
       /\ \A o \in startObs : HoldsMax(o) => InList(ObserversOf(self), o)
       /\ pc \in {"close", "done", "raised"} => Len(ObserversOf(self)) >= 1
       /\ outcome # "IndexError"

C16_Witness ==
    /\ FromZero
    /\ pc = "done"
    /\ Len(ObserversOf(self)) < Cardinality(startObs)
    /\ \E o \in startObs : HoldsMax(o) /\ InList(ObserversOf(self), o)

\* C17: from state 0 and at least one attached observer, when the notify of
\* round 1 returns the state is the maximum budget of the attached
\* observers, and it keeps that value through rounds 2 and 3, where no
\* observer raises.
C17_StateSettlesInRound1 ==
    (FromZero /\ startObs # {}) =>
       /\ Notified1 => state[self] = MaxMoneyOf(startObs)
       /\ x >= 2 => hand = FALSE

C17_Witness ==
    /\ FromZero
    /\ Cardinality(startObs) >= 2
    /\ ~SameBudget
    /\ x = rounds
    /\ pc = "notify"
    /\ i >= 1
    /\ state[self] = MaxMoneyOf(startObs)

\* the observers left in the collection
Remaining == Range(ObserversOf(self))

\* the observers attached at the start that own the highest budget
MaxHolders == {o \in startObs : HoldsMax(o)}

\* C18: in the driver's configuration (five observers, state 0, 3 rounds),
\* for every budget assignment and every shuffle, the observers remaining at
\* the closing step are exactly the holders of the maximum budget, and a
\* winner is declared exactly when one observer alone holds it.
C18_DriverOutcome ==
    /\ InRun => (startState = 0 /\ startObs = Bidder)
    /\ (InRun /\ pc \in {"close", "done", "raised"}) => Remaining = MaxHolders
    /\ Ended => pc = "done"
    /\ Ended => (result = "winner" <=> Cardinality(MaxHolders) = 1)
    /\ Ended => (result = "no_winner" <=> Cardinality(MaxHolders) > 1)

C18_Witness ==
    /\ pc = "done"
    /\ startObs = Bidder
    /\ result = "winner"
    /\ winner = {name[o] : o \in MaxHolders}
    /\ \E a, b \in startObs : a # b /\ ~HoldsMax(a) /\ ~HoldsMax(b) /\ money[a] # money[b]

\* C19: whenever a run started with state 0 declares a winner, the winner's
\* budget equals the final state and is the maximum budget of the observers
\* attached at the start; no observer with a lower budget is declared winner.
C19_WinnerHoldsMax ==
    (FromZero /\ pc = "done" /\ result = "winner") =>
       /\ winner # {}
       /\ \A o \in DOMAIN money :
             name[o] \in winner => (HoldsMax(o) /\ money[o] = state[self])

C19_Witness ==
    /\ FromZero
    /\ pc = "done"
    /\ result = "winner"
    /\ Cardinality(startObs) >= 3
    /\ \E o \in startObs : name[o] \in winner /\ money[o] = state[self]

====
